---- MODULE Spec2Model ----
(***************************************************************************)
(* Model of src/src/webhook_service.py: the POST /webhook handler of the   *)
(* GitLab webhook relay, its signature validator, its three extractors and *)
(* the pipeline trigger call.                                              *)
(*                                                                         *)
(* Python and JSON values are tagged records: [t |-> "null"],               *)
(* [t |-> "bool", v |-> BOOLEAN], [t |-> "num", v |-> Int],                *)
(* [t |-> "str", v |-> STRING], [t |-> "list", v |-> Seq(value)],          *)
(* [t |-> "obj", v |-> [keys -> value]].  A missing key of an object is a  *)
(* key outside DOMAIN v; builders take the marker Absent to leave a key    *)
(* out.                                                                    *)
(***************************************************************************)
EXTENDS Integers, Sequences, FiniteSets, TLC

VARIABLES settings, pc, request, payload, extracted, upstream, response,
          unhandled, effects

vars == <<settings, pc, request, payload, extracted, upstream, response,
          unhandled, effects>>

(***************************************************************************)
(* Bounds of the explored inputs.                                          *)
(***************************************************************************)
\* longest changes.assignees.current / changes.reviewers.current list
MaxListLen == 2
\* longest plain description, in characters (the truncation suffix has 20)
MaxDescLen == 26
\* largest ORIGINAL_NEEDS_MAX_CHARS explored by the truncation specification
MaxMaxChars == 24

(***************************************************************************)
(* Python / JSON values.                                                   *)
(***************************************************************************)
Absent == [t |-> "absent"]
JNull == [t |-> "null"]
JBool(b) == [t |-> "bool", v |-> b]
JNum(n) == [t |-> "num", v |-> n]
JStr(s) == [t |-> "str", v |-> s]
JList(q) == [t |-> "list", v |-> q]
\* an object from a record of values, the Absent ones left out
JObj(f) == [t |-> "obj", v |-> [k \in {j \in DOMAIN f : f[j] # Absent} |-> f[k]]]
EmptyObj == [t |-> "obj", v |-> [k \in {} |-> JNull]]
EmptyList == JList(<<>>)

IsStr(x) == x.t = "str"
IsObj(x) == x.t = "obj"
IsList(x) == x.t = "list"

\* bool(x)
Truthy(x) ==
  CASE x.t = "null" -> FALSE
    [] x.t = "bool" -> x.v
    [] x.t = "num" -> x.v # 0
    [] x.t = "str" -> x.v # ""
    [] x.t = "list" -> Len(x.v) > 0
    [] x.t = "obj" -> DOMAIN x.v # {}

\* a or b
Or(a, b) == IF Truthy(a) THEN a ELSE b

\* d.get(k): None when the key is missing (d is a dict)
Get(d, k) == IF k \in DOMAIN d.v THEN d.v[k] ELSE JNull

\* d.get(k, dflt): the default only when the key is missing, not when it is null
GetD(d, k, dflt) == IF k \in DOMAIN d.v THEN d.v[k] ELSE dflt

\* str(x) and the f-string rendering {x}, for scalars
Str(x) ==
  CASE x.t = "str" -> x.v
    [] x.t = "null" -> "None"
    [] x.t = "bool" -> IF x.v THEN "True" ELSE "False"
    [] x.t = "num" -> ToString(x.v)

\* len(x) for the sized types
PyLen(x) == IF x.t = "obj" THEN Cardinality(DOMAIN x.v) ELSE Len(x.v)
HasLen(x) == x.t \in {"str", "list", "obj"}

Min(a, b) == IF a < b THEN a ELSE b
Max(a, b) == IF a > b THEN a ELSE b

\* s[:k] on a string, k of either sign
SliceTo(s, k) ==
  LET n == Len(s)
      e == IF k < 0 THEN Max(n + k, 0) ELSE Min(k, n)
  IN SubSeq(s, 1, e)

CharAt(s, i) == SubSeq(s, i, i)

LowerChar(c) ==
  CASE c = "A" -> "a" [] c = "B" -> "b" [] c = "C" -> "c" [] c = "D" -> "d"
    [] c = "E" -> "e" [] c = "F" -> "f" [] c = "G" -> "g" [] c = "H" -> "h"
    [] c = "I" -> "i" [] c = "J" -> "j" [] c = "K" -> "k" [] c = "L" -> "l"
    [] c = "M" -> "m" [] c = "N" -> "n" [] c = "O" -> "o" [] c = "P" -> "p"
    [] c = "Q" -> "q" [] c = "R" -> "r" [] c = "S" -> "s" [] c = "T" -> "t"
    [] c = "U" -> "u" [] c = "V" -> "v" [] c = "W" -> "w" [] c = "X" -> "x"
    [] c = "Y" -> "y" [] c = "Z" -> "z" [] OTHER -> c

RECURSIVE Lower(_)
\* s.lower()
Lower(s) == IF s = "" THEN "" ELSE LowerChar(CharAt(s, 1)) \o Lower(SubSeq(s, 2, Len(s)))

\* sub in s
Contains(s, sub) ==
  \E i \in 1..(Len(s) - Len(sub) + 1) : SubSeq(s, i, i + Len(sub) - 1) = sub

RECURSIVE Replace(_, _)
\* s.replace(sub, ""), sub not empty
Replace(s, sub) ==
  IF Len(s) < Len(sub) THEN s
  ELSE IF SubSeq(s, 1, Len(sub)) = sub THEN Replace(SubSeq(s, Len(sub) + 1, Len(s)), sub)
  ELSE CharAt(s, 1) \o Replace(SubSeq(s, 2, Len(s)), sub)

IsSpace(c) == c \in {" ", "\n", "\t", "\r"}

RECURSIVE LStrip(_)
LStrip(s) == IF s # "" /\ IsSpace(CharAt(s, 1)) THEN LStrip(SubSeq(s, 2, Len(s))) ELSE s

RECURSIVE RStrip(_)
RStrip(s) == IF s # "" /\ IsSpace(CharAt(s, Len(s))) THEN RStrip(SubSeq(s, 1, Len(s) - 1)) ELSE s

\* s.strip()
Strip(s) == RStrip(LStrip(s))

RECURSIVE Join(_)
\* ", ".join(names)
Join(names) ==
  IF names = <<>> THEN ""
  ELSE IF Len(names) = 1 THEN names[1]
  ELSE names[1] \o ", " \o Join(Tail(names))

RECURSIVE Missing(_, _)
\* [k for k in required if not variables.get(k)]
Missing(required, variables) ==
  IF required = <<>> THEN <<>>
  ELSE (IF Truthy(variables[Head(required)]) THEN <<>> ELSE <<Head(required)>>)
       \o Missing(Tail(required), variables)

(***************************************************************************)
(* Settings (Settings.__init__).  The values the environment can set are   *)
(* drawn in Init; the others stay at their defaults.                       *)
(***************************************************************************)
DefaultMaxChars == 8192
AgentUsername == "copilot-agent"
AgentCommitEmail == "copilot@github.com"
DefaultTargetBranch == "main"
PipelineRef == "main"

SecretChoices == {JNull, JStr(""), JStr("abc")}
MaxCharsChoices == {DefaultMaxChars, 22}

SettingsChoices ==
  [webhook_secret_token : SecretChoices,
   original_needs_max_chars : MaxCharsChoices,
   copilot_agent_username : {AgentUsername},
   copilot_agent_commit_email : {AgentCommitEmail},
   default_target_branch : {DefaultTargetBranch},
   pipeline_ref : {PipelineRef},
   enable_inline_review_comments : {TRUE}]


(***************************************************************************)
(* Outcome of an extractor: a variable mapping, a ValueError carrying the  *)
(* business-rule message, or another exception that the handler does not   *)
(* catch.                                                                  *)
(***************************************************************************)
NoVars == [k \in {} |-> JNull]
Return(variables) == [kind |-> "ok", msg |-> "", vars |-> variables]
Raise(exc, message) == [kind |-> exc, msg |-> message, vars |-> NoVars]
NotRun == [kind |-> "none", msg |-> "", vars |-> NoVars]

AllowedActions == {"open", "reopen", "update", "edited"}

TruncationSuffix == "\n\n<!-- truncated -->"

\* lines 321-323 of _extract_variables, on a string description
TruncateNeeds(original_needs, max_chars) ==
  IF Len(original_needs) > max_chars
    THEN SliceTo(original_needs, max_chars - Len(TruncationSuffix)) \o TruncationSuffix
    ELSE original_needs

RECURSIVE ScanAssignees(_, _)
ScanAssignees(assignees, agent) ==
  IF assignees = <<>> THEN "no"
  ELSE IF ~IsObj(Head(assignees)) THEN "AttributeError"
  ELSE LET name == GetD(Head(assignees), "username", JStr("")) IN
       IF IsStr(name) /\ name.v = agent THEN "yes"
       ELSE ScanAssignees(Tail(assignees), agent)

\* the agent looked for at every position of current_assignees
AnyAssigneeCheck(current_assignees, agent) ==
  IF ~Truthy(current_assignees) THEN "no"
  ELSE IF ~HasLen(current_assignees) THEN "TypeError"
  ELSE IF ~IsList(current_assignees) THEN "AttributeError"
  ELSE ScanAssignees(current_assignees.v, agent)

\* lines 307-314: the first element of current_assignees decides.
\* "yes" / "no", or the exception the inspection raises
FirstAssigneeCheck(current_assignees, agent) ==
  IF ~Truthy(current_assignees) THEN "no"
  ELSE IF ~HasLen(current_assignees) THEN "TypeError"
  ELSE IF IsStr(current_assignees) THEN "AttributeError"
  ELSE IF IsObj(current_assignees) THEN "KeyError"
  ELSE LET first == current_assignees.v[1] IN
       IF ~IsObj(first) THEN "AttributeError"
       ELSE LET first_assignee_name == GetD(first, "username", JStr("")) IN
            IF IsStr(first_assignee_name) /\ first_assignee_name.v = agent
              THEN "yes" ELSE "no"

RECURSIVE ScanReviewers(_, _)
\* lines 222-227: the loop over a list of reviewers, in order
ScanReviewers(reviewers, agent) ==
  IF reviewers = <<>> THEN "no"
  ELSE IF ~IsObj(Head(reviewers)) THEN "AttributeError"
  ELSE LET reviewer_username == GetD(Head(reviewers), "username", JStr("")) IN
       IF IsStr(reviewer_username) /\ reviewer_username.v = agent THEN "yes"
       ELSE ScanReviewers(Tail(reviewers), agent)

\* lines 220-227: any element of current_reviewers decides
AnyReviewerCheck(current_reviewers, agent) ==
  IF ~Truthy(current_reviewers) THEN "no"
  ELSE IF ~HasLen(current_reviewers) THEN "TypeError"
  ELSE IF ~IsList(current_reviewers) THEN "AttributeError"
  ELSE ScanReviewers(current_reviewers.v, agent)


\* lines 320-374 of _extract_variables: the mapping and its required fields
IssueAssemble(issue, project, repository, s) ==
  LET description == Or(Get(issue, "description"), JStr("")) IN
  IF ~HasLen(description) THEN Raise("TypeError", "")
  ELSE IF PyLen(description) > s.original_needs_max_chars /\ ~IsStr(description)
    THEN Raise("TypeError", "")
  ELSE IF ~IsObj(project) THEN Raise("AttributeError", "")
  ELSE
  LET original_needs ==
        IF IsStr(description)
          THEN JStr(TruncateNeeds(description.v, s.original_needs_max_chars))
          ELSE description
      project_branch == Get(project, "default_branch")
      project_url == Or(Get(project, "http_url"), Get(project, "git_http_url"))
      project_path == Get(project, "path_with_namespace")
      \* repository.get(...) is reached only behind a falsy project value
      reads_repository ==
        ~Truthy(project_branch) \/ ~Truthy(project_url) \/ ~Truthy(project_path)
  IN
  IF reads_repository /\ ~IsObj(repository) THEN Raise("AttributeError", "")
  ELSE
  LET target_branch ==
        IF Truthy(project_branch) THEN project_branch
        ELSE Or(Get(repository, "default_branch"), JStr(s.default_target_branch))
      target_repo_url ==
        IF Truthy(project_url) THEN project_url
        ELSE Or(Get(repository, "url"), Or(Get(repository, "homepage"), JStr("")))
      target_project_id == Or(Get(project, "id"), Get(issue, "project_id"))
      target_project_path ==
        IF Truthy(project_path) THEN project_path ELSE Get(repository, "name")
      variables ==
        [TRIGGER_TYPE |-> JStr("issue_assignee"),
         ORIGINAL_NEEDS |-> original_needs,
         TARGET_REPO_URL |-> target_repo_url,
         TARGET_BRANCH |-> target_branch,
         TARGET_PROJECT_ID |-> JStr(Str(Or(target_project_id, JStr("")))),
         TARGET_PROJECT_PATH |-> Or(target_project_path, JStr("")),
         TARGET_ISSUE_IID |-> JStr(Str(GetD(issue, "iid", JStr("")))),
         TARGET_ISSUE_ID |-> JStr(Str(GetD(issue, "id", JStr("")))),
         ISSUE_AUTHOR_ID |-> JStr(Str(GetD(issue, "author_id", JStr("")))),
         ISSUE_TITLE |-> GetD(issue, "title", JStr("")),
         ISSUE_URL |-> GetD(issue, "url", JStr("")),
         ISSUE_ACTION |-> GetD(issue, "action", JStr("")),
         ISSUE_STATE |-> GetD(issue, "state", JStr("")),
         ISSUE_UPDATED_AT |-> GetD(issue, "updated_at", JStr("")),
         COPILOT_AGENT_USERNAME |-> JStr(s.copilot_agent_username),
         COPILOT_AGENT_COMMIT_EMAIL |-> JStr(s.copilot_agent_commit_email)]
      missing ==
        Missing(<<"TARGET_REPO_URL", "TARGET_PROJECT_ID", "TARGET_ISSUE_IID">>, variables)
  IN
  IF missing # <<>>
    THEN Raise("ValueError", "Missing required issue/project fields: " \o Join(missing))
    ELSE Return(variables)

\* _extract_variables(payload): the issue extractor
ExtractVariables(p, s) ==
  IF ~IsObj(p) THEN Raise("AttributeError", "")
  ELSE
  LET issue == Or(Get(p, "object_attributes"), EmptyObj)
      project == Or(Get(p, "project"), EmptyObj)
      repository == Or(Get(p, "repository"), EmptyObj)
  IN
  IF ~IsObj(issue) THEN Raise("AttributeError", "")
  ELSE
  LET raw_action == Or(Get(issue, "action"), JStr("")) IN
  IF ~IsStr(raw_action) THEN Raise("AttributeError", "")
  ELSE
  LET action == Lower(raw_action.v) IN
  IF action \notin AllowedActions
    THEN Raise("ValueError", "Ignoring unsupported issue action '" \o action \o "'")
  ELSE
  LET changes == Or(Get(p, "changes"), EmptyObj) IN
  IF ~IsObj(changes) THEN Raise("AttributeError", "")
  ELSE
  LET assignees_change == Or(Get(changes, "assignees"), EmptyObj) IN
  IF ~IsObj(assignees_change) THEN Raise("AttributeError", "")
  ELSE
  LET current_assignees == Or(Get(assignees_change, "current"), EmptyList)
      check == FirstAssigneeCheck(current_assignees, s.copilot_agent_username)
  IN
  IF check \notin {"yes", "no"} THEN Raise(check, "")
  ELSE IF check = "no"
    THEN Raise("ValueError", s.copilot_agent_username \o " not assigned, ignoring event")
  ELSE IssueAssemble(issue, project, repository, s)

\* lines 233-283 of _extract_mr_reviewer_variables
ReviewerAssemble(mr, project, user, action, s) ==
  IF ~IsObj(project) \/ ~IsObj(user) THEN Raise("AttributeError", "")
  ELSE
  LET source_branch == GetD(mr, "source_branch", JStr(""))
      target_branch == GetD(mr, "target_branch", JStr(""))
      mr_iid == GetD(mr, "iid", JStr(""))
      mr_id == GetD(mr, "id", JStr(""))
      target_repo_url ==
        Or(Get(project, "http_url"), Or(Get(project, "git_http_url"), JStr("")))
      target_project_id == Or(Get(project, "id"), Get(mr, "target_project_id"))
      variables ==
        [TRIGGER_TYPE |-> JStr("mr_reviewer"),
         TARGET_REPO_URL |-> target_repo_url,
         TARGET_BRANCH |-> target_branch,
         SOURCE_BRANCH |-> source_branch,
         TARGET_PROJECT_ID |-> JStr(Str(Or(target_project_id, JStr("")))),
         TARGET_PROJECT_PATH |-> GetD(project, "path_with_namespace", JStr("")),
         TARGET_MR_IID |-> JStr(Str(mr_iid)),
         TARGET_MR_ID |-> JStr(Str(mr_id)),
         MR_TITLE |-> GetD(mr, "title", JStr("")),
         MR_DESCRIPTION |-> GetD(mr, "description", JStr("")),
         MR_URL |-> GetD(mr, "url", JStr("")),
         MR_AUTHOR_ID |-> JStr(Str(GetD(mr, "author_id", JStr("")))),
         MR_ACTION |-> JStr(action),
         MR_STATE |-> GetD(mr, "state", JStr("")),
         REVIEWER_ASSIGNER_ID |-> JStr(Str(GetD(user, "id", JStr("")))),
         REVIEWER_ASSIGNER_USERNAME |-> GetD(user, "username", JStr("")),
         COPILOT_AGENT_USERNAME |-> JStr(s.copilot_agent_username),
         COPILOT_AGENT_COMMIT_EMAIL |-> JStr(s.copilot_agent_commit_email),
         ENABLE_INLINE_REVIEW_COMMENTS |->
           JStr(IF s.enable_inline_review_comments THEN "true" ELSE "false")]
      missing ==
        Missing(<<"TARGET_REPO_URL", "TARGET_PROJECT_ID", "SOURCE_BRANCH", "TARGET_MR_IID">>,
                variables)
  IN
  IF missing # <<>>
    THEN Raise("ValueError", "Missing required MR/project fields: " \o Join(missing))
    ELSE Return(variables)

\* _extract_mr_reviewer_variables(payload): the MR-reviewer extractor
ExtractMrReviewerVariables(p, s) ==
  IF ~IsObj(p) THEN Raise("AttributeError", "")
  ELSE
  LET mr == Or(Get(p, "object_attributes"), EmptyObj)
      project == Or(Get(p, "project"), EmptyObj)
      user == Or(Get(p, "user"), EmptyObj)
      changes == Or(Get(p, "changes"), EmptyObj)
  IN
  IF ~IsObj(mr) THEN Raise("AttributeError", "")
  ELSE
  LET raw_action == Or(Get(mr, "action"), JStr("")) IN
  IF ~IsStr(raw_action) THEN Raise("AttributeError", "")
  ELSE
  LET action == Lower(raw_action.v) IN
  IF action \notin AllowedActions
    THEN Raise("ValueError", "Ignoring unsupported MR action '" \o action \o "'")
  ELSE IF ~IsObj(changes) THEN Raise("AttributeError", "")
  ELSE
  LET reviewers_change == Or(Get(changes, "reviewers"), EmptyObj) IN
  IF ~IsObj(reviewers_change) THEN Raise("AttributeError", "")
  ELSE
  LET current_reviewers == Or(Get(reviewers_change, "current"), EmptyList)
      check == AnyReviewerCheck(current_reviewers, s.copilot_agent_username)
  IN
  IF check \notin {"yes", "no"} THEN Raise(check, "")
  ELSE IF check = "no"
    THEN Raise("ValueError",
               s.copilot_agent_username \o " not assigned as reviewer, ignoring event")
  ELSE ReviewerAssemble(mr, project, user, action, s)

\* agent_mention not in note_text (line 139): TRUE / FALSE, or "TypeError"
\* for a note that is no container
MentionCheck(note_text, agent_mention) ==
  CASE note_text.t = "str" -> IF Contains(note_text.v, agent_mention) THEN "yes" ELSE "no"
    [] note_text.t = "list" ->
         IF \E i \in 1..Len(note_text.v) :
              IsStr(note_text.v[i]) /\ note_text.v[i].v = agent_mention
           THEN "yes" ELSE "no"
    [] note_text.t = "obj" -> IF agent_mention \in DOMAIN note_text.v THEN "yes" ELSE "no"
    [] OTHER -> "TypeError"

\* _extract_mr_note_variables(payload): the MR-note extractor
ExtractMrNoteVariables(p, s) ==
  IF ~IsObj(p) THEN Raise("AttributeError", "")
  ELSE
  LET note_attrs == Or(Get(p, "object_attributes"), EmptyObj) IN
  IF ~IsObj(note_attrs) THEN Raise("AttributeError", "")
  ELSE
  LET note_text == GetD(note_attrs, "note", JStr(""))
      agent_mention == "@" \o s.copilot_agent_username
      check == MentionCheck(note_text, agent_mention)
  IN
  IF check \notin {"yes", "no"} THEN Raise(check, "")
  ELSE IF check = "no" THEN Raise("ValueError", agent_mention \o " not mentioned in note")
  ELSE
  LET mr == Or(Get(p, "merge_request"), EmptyObj)
      project == Or(Get(p, "project"), EmptyObj)
      user == Or(Get(p, "user"), EmptyObj)
  IN
  IF ~IsObj(mr) \/ ~IsObj(project) \/ ~IsObj(user) \/ ~IsStr(note_text)
    THEN Raise("AttributeError", "")
  ELSE
  LET source_branch == GetD(mr, "source_branch", JStr(""))
      target_branch == GetD(mr, "target_branch", JStr(""))
      mr_iid == GetD(mr, "iid", JStr(""))
      mr_id == GetD(mr, "id", JStr(""))
      target_repo_url ==
        Or(Get(project, "http_url"), Or(Get(project, "git_http_url"), JStr("")))
      target_project_id == Or(Get(project, "id"), Get(mr, "target_project_id"))
      instruction == Strip(Replace(note_text.v, agent_mention))
      variables ==
        [TRIGGER_TYPE |-> JStr("mr_note"),
         MR_NOTE_INSTRUCTION |-> JStr(instruction),
         TARGET_REPO_URL |-> target_repo_url,
         TARGET_BRANCH |-> target_branch,
         SOURCE_BRANCH |-> source_branch,
         NEW_BRANCH_NAME |-> source_branch,
         TARGET_PROJECT_ID |-> JStr(Str(Or(target_project_id, JStr("")))),
         TARGET_PROJECT_PATH |-> GetD(project, "path_with_namespace", JStr("")),
         TARGET_MR_IID |-> JStr(Str(mr_iid)),
         TARGET_MR_ID |-> JStr(Str(mr_id)),
         MR_TITLE |-> GetD(mr, "title", JStr("")),
         MR_URL |-> GetD(mr, "url", JStr("")),
         MR_AUTHOR_ID |-> JStr(Str(GetD(mr, "author_id", JStr("")))),
         NOTE_AUTHOR_ID |-> JStr(Str(GetD(user, "id", JStr("")))),
         NOTE_AUTHOR_USERNAME |-> GetD(user, "username", JStr("")),
         COPILOT_AGENT_USERNAME |-> JStr(s.copilot_agent_username),
         COPILOT_AGENT_COMMIT_EMAIL |-> JStr(s.copilot_agent_commit_email)]
      missing ==
        Missing(<<"TARGET_REPO_URL", "TARGET_PROJECT_ID", "SOURCE_BRANCH", "TARGET_MR_IID">>,
                variables)
  IN
  IF missing # <<>>
    THEN Raise("ValueError", "Missing required MR/project fields: " \o Join(missing))
    ELSE Return(variables)


(***************************************************************************)
(* The handler issue_webhook, as the operators its steps apply.            *)
(***************************************************************************)
\* the comparison made without regard to case
ValidateSignatureAnyCase(s, header_token) ==
  IF ~Truthy(s.webhook_secret_token) THEN TRUE
  ELSE IsStr(header_token) /\ Lower(header_token.v) = Lower(s.webhook_secret_token.v)

\* _validate_signature(): header_token is None when the header is missing
ValidateSignature(s, header_token) ==
  IF ~Truthy(s.webhook_secret_token) THEN TRUE
  ELSE header_token = s.webhook_secret_token

SupportedEvents == {"Issue Hook", "Note Hook", "Merge Request Hook"}

\* event_name not in [...] (line 398); event_name is None without the header
EventSupported(event_name) == IsStr(event_name) /\ event_name.v \in SupportedEvents

\* request.get_json(silent=True): None unless the body parses.  A body of
\* kind "missing" is no body, or one not announced as JSON
GetJson(body) == IF body.kind = "json" THEN body.json ELSE JNull

\* every note routed to the MR-note extractor
RouteAnyNote(event_name, p) ==
  IF event_name = "Note Hook" THEN [to |-> "mr_note", noteable_type |-> JNull]
  ELSE IF event_name = "Merge Request Hook"
    THEN [to |-> "mr_reviewer", noteable_type |-> JNull]
    ELSE [to |-> "issue", noteable_type |-> JNull]

\* lines 412-425: which extractor the event goes to; "ignore" for a note on
\* another noteable type, or the exception reading the noteable type raises
Route(event_name, p) ==
  IF event_name = "Note Hook" THEN
    IF ~IsObj(p) THEN [to |-> "AttributeError", noteable_type |-> JNull]
    ELSE LET attrs == GetD(p, "object_attributes", EmptyObj) IN
         IF ~IsObj(attrs) THEN [to |-> "AttributeError", noteable_type |-> JNull]
         ELSE LET noteable_type == Get(attrs, "noteable_type") IN
              IF IsStr(noteable_type) /\ noteable_type.v = "MergeRequest"
                THEN [to |-> "mr_note", noteable_type |-> noteable_type]
                ELSE [to |-> "ignore", noteable_type |-> noteable_type]
  ELSE IF event_name = "Merge Request Hook"
    THEN [to |-> "mr_reviewer", noteable_type |-> JNull]
    ELSE [to |-> "issue", noteable_type |-> JNull]

Extractors == {"issue", "mr_note", "mr_reviewer"}

\* the call of the routed extractor
RunExtractor(to, p, s) ==
  CASE to = "mr_note" -> ExtractMrNoteVariables(p, s)
    [] to = "mr_reviewer" -> ExtractMrReviewerVariables(p, s)
    [] to = "issue" -> ExtractVariables(p, s)

\* a JSON response body with its HTTP status; Absent marks a key not sent
Reply(http, status, reason) ==
  [http |-> http, status |-> status, reason |-> reason,
   pipeline_id |-> Absent, web_url |-> Absent, ref |-> Absent]
NoResponse == Reply(0, "", Absent)

\* a ValueError that is logged and not returned on
ExtractionOutcomeSwallowing(result) ==
  IF result.kind \in {"ok", "ValueError"} THEN "proceed" ELSE "escape"

\* the try / except ValueError of lines 411-428: the handler goes on with a
\* mapping, answers a ValueError, and lets any other exception through
ExtractionOutcome(result) ==
  IF result.kind = "ok" THEN "proceed"
  ELSE IF result.kind = "ValueError" THEN "ignored"
  ELSE "escape"

\* lines 426-428: what the handler answers to an extractor's ValueError
IgnoredByExtractor(result) == Reply(202, "ignored", JStr(result.msg))

\* line 419
IgnoredNote(noteable_type) ==
  Reply(202, "ignored", JStr("Note on " \o Str(noteable_type) \o " not supported"))

NotJson == [t |-> "notjson"]

\* lines 456-478: the answer to the upstream outcome, or the exception that
\* response.json() / body.get raises outside the try
InterpretUpstream(up) ==
  IF up.kind = "transport"
    THEN [kind |-> "response",
          resp |-> Reply(502, "error", JStr("Pipeline trigger request failed: " \o up.exc))]
  ELSE IF up.status >= 300
    THEN [kind |-> "response",
          resp |-> Reply(up.status, "error",
                         IF up.text # "" THEN JStr(up.text)
                         ELSE JStr("Failed to trigger pipeline"))]
  ELSE IF up.json.t = "notjson" THEN [kind |-> "JSONDecodeError", resp |-> NoResponse]
  ELSE IF ~IsObj(up.json) THEN [kind |-> "AttributeError", resp |-> NoResponse]
  ELSE [kind |-> "response",
        resp |-> [http |-> 200, status |-> "queued", reason |-> Absent,
                  pipeline_id |-> Get(up.json, "id"),
                  web_url |-> Get(up.json, "web_url"),
                  ref |-> Get(up.json, "ref")]]


(***************************************************************************)
(* Inputs: the requests the webhook sender can post and the outcomes the   *)
(* upstream trigger API can give.                                          *)
(***************************************************************************)
AgentUser == JObj([username |-> JStr(AgentUsername), id |-> JNum(7)])
OtherUser == JObj([username |-> JStr("alice"), id |-> JNum(8)])

RECURSIVE SeqsUpTo(_, _)
\* the sequences over S of length at most n
SeqsUpTo(S, n) ==
  IF n = 0 THEN {<<>>}
  ELSE LET shorter == SeqsUpTo(S, n - 1) IN
       shorter \cup {Append(q, x) : q \in shorter, x \in S}

\* values of changes.assignees.current and changes.reviewers.current
CurrentChoices ==
  {JList(q) : q \in SeqsUpTo({AgentUser, OtherUser}, MaxListLen)}
  \cup {Absent, JNull, JList(<<JStr(AgentUsername)>>), JList(<<OtherUser, JNull>>)}

ActionChoices == {Absent, JStr("open"), JStr("Update"), JStr("close"), JNum(5)}

GoodProject ==
  JObj([id |-> JNum(5), http_url |-> JStr("https://x/y.git"),
        path_with_namespace |-> JStr("x/y"), default_branch |-> JStr("dev")])

ProjectChoices ==
  {GoodProject, Absent, JNull, JStr("x/y"),
   JObj([id |-> JNum(5)]),
   JObj([http_url |-> JStr("https://x/y.git")]),
   JObj([id |-> JNull, git_http_url |-> JStr("https://x/y.git")]),
   JObj([id |-> JStr("5"), http_url |-> JNum(80)])}

RECURSIVE Chars(_, _)
\* a description of n characters
Chars(c, n) == IF n = 0 THEN "" ELSE c \o Chars(c, n - 1)

DescriptionChoices ==
  {Absent, JNull, JNum(7), JStr("fix bug"), JStr(Chars("d", MaxDescLen)),
   JStr(Chars("d", 2) \o TruncationSuffix)}

ScalarChoices == {Absent, JNull, JNum(3), JStr("3")}

IssuePayload(action, current, description, iid, title, project) ==
  JObj([object_kind |-> JStr("issue"),
        object_attributes |->
          JObj([action |-> action, description |-> description, iid |-> iid,
                title |-> title, id |-> JNum(101), author_id |-> JNum(9),
                state |-> JStr("opened"), url |-> JStr("https://x/y/-/issues/3")]),
        project |-> project,
        changes |-> JObj([assignees |-> JObj([current |-> current])])])

BaseIssue(action, current) ==
  IssuePayload(action, current, JStr("fix bug"), JNum(3), JStr("Bug"), GoodProject)

IssueBodies ==
  {BaseIssue(a, c) : a \in ActionChoices, c \in CurrentChoices}
  \cup {IssuePayload(JStr("open"), JList(<<AgentUser>>), d, JNum(3), JStr("Bug"), GoodProject) :
          d \in DescriptionChoices}
  \cup {IssuePayload(JStr("open"), JList(<<AgentUser>>), JStr("fix bug"), i, t, GoodProject) :
          i \in ScalarChoices, t \in ScalarChoices}
  \cup {IssuePayload(JStr("open"), JList(<<AgentUser>>), JStr("fix bug"), JNum(3), JStr("Bug"), pr) :
          pr \in ProjectChoices}

MergeRequest(action, source_branch, iid, title) ==
  JObj([action |-> action, source_branch |-> source_branch, iid |-> iid,
        title |-> title, target_branch |-> JStr("main"), id |-> JNum(201),
        author_id |-> JNum(9), state |-> JStr("opened"),
        url |-> JStr("https://x/y/-/merge_requests/4")])

ReviewerPayload(action, current, source_branch, iid, title, project) ==
  JObj([object_kind |-> JStr("merge_request"),
        object_attributes |-> MergeRequest(action, source_branch, iid, title),
        project |-> project,
        user |-> OtherUser,
        changes |-> JObj([reviewers |-> JObj([current |-> current])])])

ReviewerBodies ==
  {ReviewerPayload(a, c, JStr("feature"), JNum(4), JStr("MR"), GoodProject) :
     a \in ActionChoices, c \in CurrentChoices}
  \cup {ReviewerPayload(JStr("open"), JList(<<AgentUser>>), b, i, JStr("MR"), GoodProject) :
          b \in {Absent, JNull, JNum(1), JStr("feature")}, i \in ScalarChoices}
  \cup {ReviewerPayload(JStr("open"), JList(<<AgentUser>>), JStr("feature"), JNum(4), t, pr) :
          t \in {JNull, JStr("MR")}, pr \in ProjectChoices}

NoteChoices ==
  {Absent, JNull, JNum(4), JStr("please fix"), JStr("@copilot-agent please fix"),
   JStr("hello @copilot-agent")}

NoteableChoices ==
  {Absent, JNull, JNum(3), JStr("MergeRequest"), JStr("Commit"), JStr("Issue"),
   JStr("mergerequest")}

NotePayload(noteable_type, note, merge_request, project) ==
  JObj([object_kind |-> JStr("note"),
        object_attributes |-> JObj([noteable_type |-> noteable_type, note |-> note]),
        merge_request |-> merge_request,
        project |-> project,
        user |-> OtherUser])

GoodMergeRequest == MergeRequest(Absent, JStr("feature"), JNum(4), JStr("MR"))

NoteBodies ==
  {NotePayload(nt, n, GoodMergeRequest, GoodProject) :
     nt \in NoteableChoices, n \in NoteChoices}
  \cup {NotePayload(JStr("MergeRequest"), JStr("@copilot-agent please fix"), m, pr) :
          m \in {Absent, JNull, JStr("!4"), GoodMergeRequest,
                 MergeRequest(Absent, JStr("feature"), JNull, JNull)},
          pr \in {GoodProject, JNull, JObj([id |-> JNum(5)])}}
  \cup {JObj([object_attributes |-> oa, note |-> JStr("orphan")]) :
          oa \in {Absent, JNull, JStr("attrs"), JList(<<JNum(1)>>)}}

\* bodies that are no JSON object, or an empty one
PlainBodies ==
  {[kind |-> "missing", json |-> JNull], [kind |-> "unparseable", json |-> JNull]}
  \cup {[kind |-> "json", json |-> j] :
          j \in {JNull, JBool(FALSE), JBool(TRUE), JNum(0), JNum(7), JStr(""),
                 JStr("text"), EmptyList, JList(<<JNum(1)>>), EmptyObj}}

ObjectBodies ==
  {[kind |-> "json", json |-> j] : j \in IssueBodies \cup ReviewerBodies \cup NoteBodies}

EventChoices ==
  {JNull, JStr("Issue Hook"), JStr("Note Hook"), JStr("Merge Request Hook"),
   JStr("Push Hook"), JStr("issue hook")}

TokenChoices == {JNull, JStr(""), JStr("abc"), JStr("ABC")}

Requests ==
  [token : TokenChoices, event : EventChoices, body : PlainBodies \cup ObjectBodies]

PipelineJson ==
  JObj([id |-> JNum(42), web_url |-> JStr("https://gitlab.com/a/-/pipelines/42"),
        ref |-> JStr("main")])

\* the bodies of an upstream reply: the text and what response.json() makes of it
UpstreamBodies ==
  {[text |-> "", json |-> NotJson],
   [text |-> "server error", json |-> NotJson],
   [text |-> "{pipeline}", json |-> PipelineJson],
   [text |-> "{}", json |-> EmptyObj],
   [text |-> "[]", json |-> EmptyList]}

UpstreamStatuses == {200, 201, 299, 300, 401, 500}

UpstreamOutcomes ==
  {[kind |-> "transport", exc |-> e, status |-> 0, text |-> "", json |-> NotJson] :
     e \in {"ConnectionError", "ReadTimeout"}}
  \cup {[kind |-> "reply", exc |-> "", status |-> st, text |-> b.text, json |-> b.json] :
          st \in UpstreamStatuses, b \in UpstreamBodies}
NoUpstream == [kind |-> "none", exc |-> "", status |-> 0, text |-> "", json |-> NotJson]
NoRequest == [token |-> JNull, event |-> JNull, body |-> [kind |-> "missing", json |-> JNull]]

(***************************************************************************)
(* The state machine: one request at a time runs through the handler.      *)
(***************************************************************************)
Init ==
  /\ settings \in SettingsChoices
  /\ pc = "idle"
  /\ request = NoRequest
  /\ payload = JNull
  /\ extracted = NotRun
  /\ upstream = NoUpstream
  /\ response = NoResponse
  /\ unhandled = ""
  /\ effects = <<>>

\* the return of a response: the request is over
Respond(resp) ==
  /\ pc' = "responded"
  /\ response' = resp
  /\ unhandled' = ""

\* an exception nothing catches leaves issue_webhook: Flask answers for it
\* with its own 500 page, none of the handler's JSON responses
Escape(exc) ==
  /\ pc' = "crashed"
  /\ response' = NoResponse
  /\ unhandled' = exc

\* a request arrives at POST /webhook
Receive ==
  /\ pc = "idle"
  /\ \E r \in Requests : request' = r
  /\ pc' = "received"
  /\ UNCHANGED <<settings, payload, extracted, upstream, response, unhandled, effects>>

\* the request is over and its locals are gone: the next one starts afresh
Finish ==
  /\ pc \in {"responded", "crashed"}
  /\ pc' = "idle"
  /\ request' = NoRequest
  /\ payload' = JNull
  /\ extracted' = NotRun
  /\ upstream' = NoUpstream
  /\ response' = NoResponse
  /\ unhandled' = ""
  /\ effects' = <<>>
  /\ UNCHANGED settings

\* lines 393-394
CheckSignature ==
  /\ pc = "received"
  /\ IF ValidateSignature(settings, request.token)
       THEN pc' = "signature-checked" /\ UNCHANGED <<response, unhandled>>
       ELSE Respond(Reply(401, "ignored", JStr("Invalid webhook token")))
  /\ UNCHANGED <<settings, request, payload, extracted, upstream, effects>>

\* the body looked at before the event type
ClassifyEventAfterBody ==
  /\ pc = "signature-checked"
  /\ IF ~Truthy(GetJson(request.body))
       THEN Respond(Reply(400, "error", JStr("Expected JSON payload")))
     ELSE IF EventSupported(request.event)
       THEN pc' = "event-classified" /\ UNCHANGED <<response, unhandled>>
     ELSE Respond(Reply(202, "ignored", JStr("Unsupported event type")))
  /\ UNCHANGED <<settings, request, payload, extracted, upstream, effects>>

\* lines 396-400
ClassifyEvent ==
  /\ pc = "signature-checked"
  /\ IF EventSupported(request.event)
       THEN pc' = "event-classified" /\ UNCHANGED <<response, unhandled>>
       ELSE Respond(Reply(202, "ignored", JStr("Unsupported event type")))
  /\ UNCHANGED <<settings, request, payload, extracted, upstream, effects>>

\* lines 402-405
ParsePayload ==
  /\ pc = "event-classified"
  /\ payload' = GetJson(request.body)
  /\ IF Truthy(payload')
       THEN pc' = "payload-parsed" /\ UNCHANGED <<response, unhandled>>
       ELSE Respond(Reply(400, "error", JStr("Expected JSON payload")))
  /\ UNCHANGED <<settings, request, extracted, upstream, effects>>

\* lines 407-408: the payload goes to _persist_payload (a failure of the
\* file system is outside the model)
PersistPayload ==
  /\ pc = "payload-parsed"
  /\ effects' = Append(effects, "persist")
  /\ pc' = "payload-persisted"
  /\ UNCHANGED <<settings, request, payload, extracted, upstream, response, unhandled>>

\* lines 410-428
Extract ==
  /\ pc = "payload-persisted"
  /\ LET route == Route(request.event.v, payload) IN
     IF route.to = "ignore"
       THEN /\ Respond(IgnoredNote(route.noteable_type))
            /\ UNCHANGED <<extracted, effects>>
     ELSE IF route.to \notin Extractors
       THEN /\ Escape(route.to)
            /\ UNCHANGED <<extracted, effects>>
     ELSE LET result == RunExtractor(route.to, payload, settings) IN
          /\ extracted' = result
          /\ effects' = Append(effects, "extract:" \o route.to)
          /\ IF ExtractionOutcome(result) = "proceed"
               THEN pc' = "extracted" /\ UNCHANGED <<response, unhandled>>
             ELSE IF ExtractionOutcome(result) = "ignored"
               THEN Respond(IgnoredByExtractor(result))
             ELSE Escape(result.kind)
  /\ UNCHANGED <<settings, request, payload, upstream>>

\* lines 430-463: the one requests.post call and what comes back
TriggerPipeline ==
  /\ pc = "extracted"
  /\ \E up \in UpstreamOutcomes : upstream' = up
  /\ effects' = Append(effects, "trigger")
  /\ pc' = "triggered"
  /\ UNCHANGED <<settings, request, payload, extracted, response, unhandled>>

\* a failed trigger call made a second time before the error is answered
AnswerUpstreamRetrying ==
  /\ pc = "triggered"
  /\ LET answer == InterpretUpstream(upstream)
         failed == upstream.kind = "transport" \/ upstream.status >= 300
         calls == Cardinality({i \in 1..Len(effects) : effects[i] = "trigger"})
     IN
     IF failed /\ calls < 2
       THEN pc' = "extracted" /\ UNCHANGED <<response, unhandled>>
     ELSE IF answer.kind = "response" THEN Respond(answer.resp)
     ELSE Escape(answer.kind)
  /\ UNCHANGED <<settings, request, payload, extracted, upstream, effects>>

\* lines 458-478
AnswerUpstream ==
  /\ pc = "triggered"
  /\ LET answer == InterpretUpstream(upstream) IN
     IF answer.kind = "response" THEN Respond(answer.resp) ELSE Escape(answer.kind)
  /\ UNCHANGED <<settings, request, payload, extracted, upstream, effects>>

Next ==
  \/ Receive
  \/ CheckSignature
  \/ ClassifyEvent
  \/ ParsePayload
  \/ PersistPayload
  \/ Extract
  \/ TriggerPipeline
  \/ AnswerUpstream
  \/ Finish

Spec == Init /\ [][Next]_vars


(***************************************************************************)
(* Vocabulary of the properties, read off the request and the effects of   *)
(* the request in progress.                                                *)
(***************************************************************************)
Terminal == pc \in {"responded", "crashed"}

Occurrences(e) == Cardinality({i \in 1..Len(effects) : effects[i] = e})
TriggerCalls == Occurrences("trigger")
Persisted == Occurrences("persist")
ExtractorsRun == {x \in Extractors : Occurrences("extract:" \o x) > 0}
ExtractorCalls ==
  Occurrences("extract:issue") + Occurrences("extract:mr_note")
    + Occurrences("extract:mr_reviewer")

SecretConfigured ==
  settings.webhook_secret_token.t = "str" /\ settings.webhook_secret_token.v # ""
TokenMatches ==
  request.token.t = "str" /\ request.token.v = settings.webhook_secret_token.v
SignaturePasses == ~SecretConfigured \/ TokenMatches

EventIs(name) == request.event.t = "str" /\ request.event.v = name
EventListed == EventIs("Issue Hook") \/ EventIs("Note Hook") \/ EventIs("Merge Request Hook")

RECURSIVE Dig(_, _)
\* the value at a path of keys, null where the path leaves the objects
Dig(x, path) ==
  IF path = <<>> THEN x
  ELSE IF x.t = "obj" /\ Head(path) \in DOMAIN x.v THEN Dig(x.v[Head(path)], Tail(path))
  ELSE JNull

HasAgentName(x) ==
  /\ x.t = "obj"
  /\ "username" \in DOMAIN x.v
  /\ x.v["username"] = JStr(AgentUsername)

\* the agent condition of each extractor, on the request's JSON body
AgentFirstAssignee ==
  LET current == Dig(request.body.json, <<"changes", "assignees", "current">>) IN
  current.t = "list" /\ Len(current.v) > 0 /\ HasAgentName(current.v[1])
AgentAmongReviewers ==
  LET current == Dig(request.body.json, <<"changes", "reviewers", "current">>) IN
  current.t = "list" /\ \E i \in 1..Len(current.v) : HasAgentName(current.v[i])
AgentMentioned ==
  LET note == Dig(request.body.json, <<"object_attributes", "note">>) IN
  note.t = "str" /\ Contains(note.v, "@" \o AgentUsername)
AgentConditionMet(extractor) ==
  CASE extractor = "issue" -> AgentFirstAssignee
    [] extractor = "mr_reviewer" -> AgentAmongReviewers
    [] extractor = "mr_note" -> AgentMentioned

AgentMessages ==
  {AgentUsername \o " not assigned, ignoring event",
   AgentUsername \o " not assigned as reviewer, ignoring event",
   "@" \o AgentUsername \o " not mentioned in note"}

C2_Unauthorized ==
  Terminal =>
    /\ (response.http = 401 /\ response.status = "ignored")
         <=> (SecretConfigured /\ ~TokenMatches)
    /\ (response.http = 401 /\ response.status = "ignored") =>
         Persisted = 0 /\ TriggerCalls = 0 /\ effects = <<>>

\* the header differs from the secret only in case
C2_Witness ==
  /\ pc = "responded"
  /\ response.http = 401
  /\ settings.webhook_secret_token = JStr("abc")
  /\ request.token = JStr("ABC")


(***************************************************************************)
(* C3: once the trigger call is made the response follows from the         *)
(* upstream outcome alone: 502 "error" on a transport failure, the         *)
(* upstream status with "error" and the upstream body (or the default      *)
(* text) from status 300 on, and for every other reply 200 "queued" with   *)
(* id, web_url and ref of the upstream JSON body.                          *)
(* Stated as claimed; response.json() outside the try refutes it.          *)
(***************************************************************************)
C3_ResponseFromUpstream ==
  (Terminal /\ TriggerCalls > 0) =>
    /\ pc = "responded"
    /\ upstream.kind = "transport" =>
         response.http = 502 /\ response.status = "error"
    /\ (upstream.kind = "reply" /\ upstream.status >= 300) =>
         /\ response.http = upstream.status
         /\ response.status = "error"
         /\ response.reason =
              JStr(IF upstream.text = "" THEN "Failed to trigger pipeline" ELSE upstream.text)
    /\ (upstream.kind = "reply" /\ upstream.status < 300) =>
         /\ response.http = 200
         /\ response.status = "queued"
         /\ response.pipeline_id = Dig(upstream.json, <<"id">>)
         /\ response.web_url = Dig(upstream.json, <<"web_url">>)
         /\ response.ref = Dig(upstream.json, <<"ref">>)

(***************************************************************************)
(* C4: every request that passes the signature check, has a supported      *)
(* event type and a body that is parseable JSON has its payload persisted  *)
(* exactly once, before any extractor and any trigger call, whatever its   *)
(* outcome.  Stated as claimed; a parseable body that is falsy ({} , [],   *)
(* 0, false, "", null) is answered 400 before persistence.                 *)
(***************************************************************************)
C4_PersistedOnce ==
  (Terminal /\ SignaturePasses /\ EventListed /\ request.body.kind = "json") =>
    /\ Persisted = 1
    /\ effects[1] = "persist"


(***************************************************************************)
(* C6: the issue extractor accepts only when the first element of          *)
(* changes.assignees.current has the agent username (an empty or missing   *)
(* list and the agent further down are refused); the MR-reviewer extractor *)
(* accepts when any element of changes.reviewers.current has it.  With the *)
(* agent second of two, an otherwise valid issue event is refused with the *)
(* not-assigned message and an otherwise valid reviewer event is accepted. *)
(***************************************************************************)
ActionAllowed ==
  LET action == Dig(request.body.json, <<"object_attributes", "action">>) IN
  action.t = "str" /\ Lower(action.v) \in {"open", "reopen", "update", "edited"}

Current(kind) == Dig(request.body.json, <<"changes", kind, "current">>)

\* a list of user objects
UserList(x) == x.t = "list" /\ \A i \in 1..Len(x.v) : x.v[i].t = "obj"

AgentSecondOfTwo(x) ==
  UserList(x) /\ Len(x.v) = 2 /\ ~HasAgentName(x.v[1]) /\ HasAgentName(x.v[2])

\* the required fields of a reviewer event, as GitLab sends them
ReviewerFieldsGiven ==
  LET url == Dig(request.body.json, <<"project", "http_url">>)
      id == Dig(request.body.json, <<"project", "id">>)
      branch == Dig(request.body.json, <<"object_attributes", "source_branch">>)
      iid == Dig(request.body.json, <<"object_attributes", "iid">>)
  IN /\ url.t = "str" /\ url.v # ""
     /\ id.t = "num" /\ id.v # 0
     /\ branch.t = "str" /\ branch.v # ""
     /\ iid.t = "num"
     /\ Dig(request.body.json, <<"user">>).t = "obj"

NotAssigned == Raise("ValueError", AgentUsername \o " not assigned, ignoring event")
NotReviewer == Raise("ValueError", AgentUsername \o " not assigned as reviewer, ignoring event")

C6_AssignmentChecks ==
  /\ ExtractorsRun = {"issue"} =>
       /\ extracted.kind = "ok" => AgentFirstAssignee
       /\ (ActionAllowed /\ AgentFirstAssignee) => extracted # NotAssigned
       /\ (ActionAllowed /\ UserList(Current("assignees")) /\ ~AgentFirstAssignee) =>
            extracted = NotAssigned
       /\ (ActionAllowed /\ Current("assignees").t = "null") => extracted = NotAssigned
  /\ ExtractorsRun = {"mr_reviewer"} =>
       /\ extracted.kind = "ok" => AgentAmongReviewers
       /\ (ActionAllowed /\ UserList(Current("reviewers")) /\ AgentAmongReviewers) =>
            extracted # NotReviewer
       /\ (ActionAllowed /\ UserList(Current("reviewers")) /\ ~AgentAmongReviewers) =>
            extracted = NotReviewer
       /\ (ActionAllowed /\ AgentSecondOfTwo(Current("reviewers")) /\ ReviewerFieldsGiven) =>
            extracted.kind = "ok"

\* a reviewer event with the agent second of two went on to the trigger call
C6_Witness ==
  /\ ExtractorsRun = {"mr_reviewer"}
  /\ AgentSecondOfTwo(Current("reviewers"))
  /\ extracted.kind = "ok"
  /\ TriggerCalls = 1

\* an otherwise valid issue event with the agent second of two was refused
C6_WitnessIssue ==
  /\ ExtractorsRun = {"issue"}
  /\ AgentSecondOfTwo(Current("assignees"))
  /\ ActionAllowed
  /\ extracted = NotAssigned
  /\ pc = "responded"

(***************************************************************************)
(* C7: at most one extractor runs per request, the one the routing table   *)
(* names: "Issue Hook" the issue extractor, "Merge Request Hook" the       *)
(* MR-reviewer extractor, "Note Hook" the MR-note extractor only when      *)
(* object_attributes.noteable_type is "MergeRequest".  A "Note Hook" with  *)
(* another noteable type runs no extractor, makes no trigger call and is   *)
(* answered 202 "ignored", reason "Note on <noteable type> not supported". *)
(* The noteable type is any value of the key, a missing key included, in   *)
(* an object_attributes that is an object or missing.                      *)
(***************************************************************************)
NoteableType == Dig(request.body.json, <<"object_attributes", "noteable_type">>)

NoteableReadable ==
  /\ request.body.json.t = "obj"
  /\ "object_attributes" \in DOMAIN request.body.json.v =>
       request.body.json.v["object_attributes"].t = "obj"

TableRoute ==
  IF EventIs("Issue Hook") THEN {"issue"}
  ELSE IF EventIs("Merge Request Hook") THEN {"mr_reviewer"}
  ELSE IF EventIs("Note Hook") /\ NoteableType = JStr("MergeRequest") THEN {"mr_note"}
  ELSE {}

PastExtraction ==
  pc \in {"extracted", "triggered"} \/ (Terminal /\ Persisted = 1)

TriggerTypeOf(x) ==
  CASE x = "issue" -> "issue_assignee"
    [] x = "mr_note" -> "mr_note"
    [] x = "mr_reviewer" -> "mr_reviewer"

RequiredOf(x) ==
  IF x = "issue" THEN {"TARGET_REPO_URL", "TARGET_PROJECT_ID", "TARGET_ISSUE_IID"}
  ELSE {"TARGET_REPO_URL", "TARGET_PROJECT_ID", "SOURCE_BRANCH", "TARGET_MR_IID"}

C8_MappingOfStrings ==
  extracted.kind = "ok" =>
    \A x \in ExtractorsRun :
      /\ extracted.vars["TRIGGER_TYPE"] = JStr(TriggerTypeOf(x))
      /\ \A k \in RequiredOf(x) :
           extracted.vars[k].t = "str" /\ extracted.vars[k].v # ""
      /\ \A k \in DOMAIN extracted.vars : extracted.vars[k].t = "str"

(***************************************************************************)
(* C9: every request ends responded, with one of the documented pairs of   *)
(* HTTP status and status field; no failure leaves the handler unhandled.  *)
(* Stated as claimed; AttributeError, TypeError, KeyError and              *)
(* JSONDecodeError are not caught.                                         *)
(***************************************************************************)
DocumentedOutcome ==
  \/ response.http = 401 /\ response.status = "ignored"
  \/ response.http = 202 /\ response.status = "ignored"
  \/ response.http = 400 /\ response.status = "error"
  \/ response.http = 502 /\ response.status = "error"
  \/ /\ upstream.kind = "reply" /\ upstream.status >= 300
     /\ response.http = upstream.status /\ response.status = "error"
  \/ response.http = 200 /\ response.status = "queued"

C9_AlwaysResponds ==
  Terminal => pc = "responded" /\ unhandled = "" /\ DocumentedOutcome

(***************************************************************************)
(* C10: the event type is checked before the body, the body before the     *)
(* extractors: with a valid signature, an event type outside the three     *)
(* supported ones is answered 202 "ignored", "Unsupported event type",     *)
(* whatever the body; a supported event type with a missing or unparseable *)
(* body is answered 400 "error", and no extractor runs.                    *)
(***************************************************************************)
BodyUnreadable == request.body.kind \in {"missing", "unparseable"}

C10_EventBeforeBody ==
  (Terminal /\ SignaturePasses) =>
    /\ ~EventListed =>
         /\ pc = "responded"
         /\ response = Reply(202, "ignored", JStr("Unsupported event type"))
         /\ effects = <<>>
    /\ (EventListed /\ BodyUnreadable) =>
         /\ pc = "responded"
         /\ response.http = 400 /\ response.status = "error"
         /\ ExtractorCalls = 0 /\ effects = <<>>

\* an unsupported event with an unparseable body is ignored, not rejected
C10_Witness ==
  /\ pc = "responded"
  /\ SignaturePasses
  /\ ~EventListed
  /\ request.body.kind = "unparseable"
  /\ response.http = 202


(***************************************************************************)
(* The truncation of ORIGINAL_NEEDS, explored over every configured        *)
(* maximum up to MaxMaxChars and every description length up to            *)
(* MaxDescLen, plain or already ending with the truncation marker: the     *)
(* same handler, fed with issue events that differ in their description.   *)
(***************************************************************************)
TruncationSettings ==
  [webhook_secret_token : {JNull},
   original_needs_max_chars : 0..MaxMaxChars,
   copilot_agent_username : {AgentUsername},
   copilot_agent_commit_email : {AgentCommitEmail},
   default_target_branch : {DefaultTargetBranch},
   pipeline_ref : {PipelineRef},
   enable_inline_review_comments : {TRUE}]

Descriptions ==
  {Chars("d", n) : n \in 0..MaxDescLen}
  \cup {Chars("d", n) \o TruncationSuffix : n \in 0..(MaxDescLen - Len(TruncationSuffix))}

InitTruncate ==
  /\ settings \in TruncationSettings
  /\ pc = "idle"
  /\ request = NoRequest
  /\ payload = JNull
  /\ extracted = NotRun
  /\ upstream = NoUpstream
  /\ response = NoResponse
  /\ unhandled = ""
  /\ effects = <<>>

\* an issue event assigned to the agent arrives, with some description
ReceiveIssue ==
  /\ pc = "idle"
  /\ \E d \in Descriptions :
       request' = [token |-> JNull, event |-> JStr("Issue Hook"),
                   body |-> [kind |-> "json",
                             json |-> IssuePayload(JStr("open"), JList(<<AgentUser>>), JStr(d),
                                                   JNum(3), JStr("Bug"), GoodProject)]]
  /\ pc' = "received"
  /\ UNCHANGED <<settings, payload, extracted, upstream, response, unhandled, effects>>

NextTruncate ==
  \/ ReceiveIssue
  \/ CheckSignature
  \/ ClassifyEvent
  \/ ParsePayload
  \/ PersistPayload
  \/ Extract
  \/ TriggerPipeline
  \/ AnswerUpstream
  \/ Finish

SpecTruncate == InitTruncate /\ [][NextTruncate]_vars

EndsWith(str, suffix) ==
  Len(str) >= Len(suffix) /\ SubSeq(str, Len(str) - Len(suffix) + 1, Len(str)) = suffix

(***************************************************************************)
(* C5: in the issue extractor, for every description and every configured  *)
(* maximum: a description longer than the maximum gives an ORIGINAL_NEEDS  *)
(* of at most the maximum that ends with the truncation marker, a          *)
(* description not longer is passed unchanged, and truncating the result   *)
(* again changes nothing.  Stated as claimed; a maximum below the 20       *)
(* characters of the marker makes the slice bound negative.                *)
(***************************************************************************)
C5_Truncation ==
  (extracted.kind = "ok" /\ ExtractorsRun = {"issue"}) =>
    LET description == Dig(request.body.json, <<"object_attributes", "description">>)
        max_chars == settings.original_needs_max_chars
        original_needs == extracted.vars["ORIGINAL_NEEDS"]
    IN description.t = "str" =>
         /\ original_needs.t = "str"
         /\ Len(description.v) > max_chars =>
              /\ Len(original_needs.v) <= max_chars
              /\ EndsWith(original_needs.v, "\n\n<!-- truncated -->")
         /\ Len(description.v) <= max_chars => original_needs.v = description.v
         /\ TruncateNeeds(original_needs.v, max_chars) = original_needs.v


(***************************************************************************)
(* C11: the handler makes at most one trigger call per request; after a    *)
(* trigger call that failed (transport failure, or upstream status from    *)
(* 300 on) the next step of the request is its error response, with no     *)
(* further effect, and after a response nothing of the request remains.    *)
(***************************************************************************)
TriggerFailed ==
  upstream.kind = "transport" \/ (upstream.kind = "reply" /\ upstream.status >= 300)

C11_NoRetry ==
  /\ [](TriggerCalls <= 1)
  /\ [][(pc = "triggered" /\ TriggerFailed) =>
          /\ pc' = "responded"
          /\ response'.status = "error"
          /\ response'.http = (IF upstream.kind = "transport" THEN 502 ELSE upstream.status)
          /\ effects' = effects]_vars
  /\ [][pc = "responded" => (pc' = "idle" /\ effects' = <<>>)]_vars

\* a transport failure was answered 502 after the one trigger call
C11_Witness ==
  /\ pc = "responded"
  /\ TriggerCalls = 1
  /\ upstream.kind = "transport"
  /\ response.http = 502
  /\ response.status = "error"

====
